---- MODULE Spec2Model ----
(***************************************************************************)
(* Dummy_Agent/__main__.py: the bootstrap routine of the Greeting Agent.   *)
(* main() builds a skill descriptor, an agent card, a request handler and  *)
(* an application, and hands the built application to uvicorn.run, which   *)
(* listens on a fixed address until it is told to stop.  The state is      *)
(* main()'s local variables, its position, and what the listener started   *)
(* on line 43 does with the objects main() gave it.                        *)
(***************************************************************************)
EXTENDS Naturals, Integers, Sequences, FiniteSets, TLC

VARIABLES
  pc,               \* position of the process in __main__.py
  greeting_skill,   \* local of main(), lines 10-16
  agent_card,       \* local of main(), lines 18-27
  request_handler,  \* local of main(), lines 30-33
  server,           \* local of main(), lines 37-40
  listener,         \* the address uvicorn.run is listening on, line 43
  executors,        \* the GreetingAgentExecutor instances created so far
  stores,           \* the InMemoryTaskStore instances created: id -> tasks held
  failedAt,         \* the step whose call raised, "none" while none has
  attempts,         \* step -> how many times the step has been executed
  bound,            \* every address a listener was ever bound to
  stop_signal,      \* the listener has been told to exit (SIGINT/SIGTERM)
  served,           \* requests answered by the listener
  lastDoc,          \* body of the last answer to GET /.well-known/agent.json
  usedBy            \* the (executor, store) pairs that have served a message

vars == <<pc, greeting_skill, agent_card, request_handler, server, listener,
          executors, stores, failedAt, attempts, bound, stop_signal, served,
          lastDoc, usedBy>>

(***************************************************************************)
(* Bounds of the model.                                                    *)
(***************************************************************************)
MaxRequests == 4   \* requests the listener answers in one run
MaxTasks == 3      \* distinct task ids clients send

(***************************************************************************)
(* Values.                                                                 *)
(***************************************************************************)
\* an unassigned local, an absent listener, no answer yet
None == [none |-> TRUE]

\* "http://localhost:9999/", character by character
CardUrl == <<"h","t","t","p",":","/","/","l","o","c","a","l","h","o","s","t",
             ":","9","9","9","9","/">>

\* host="0.0.0.0"
Host == "0.0.0.0"

\* port=9999
Port == 9999

\* AgentCapabilities(): no capability is set
AgentCapabilities == [x \in {} |-> TRUE]

\* the statements of the file, in program order
Steps == {"import", "skill", "card", "handler", "app", "run"}

\* the position from which a step executes
PcBefore(step) ==
  CASE step = "import"  -> "start"
    [] step = "skill"   -> "imported"
    [] step = "card"    -> "skill"
    [] step = "handler" -> "card"
    [] step = "app"     -> "handler"
    [] step = "run"     -> "app"

\* the position after a step has completed
PcAfter(step) ==
  CASE step = "import"  -> "imported"
    [] step = "skill"   -> "skill"
    [] step = "card"    -> "card"
    [] step = "handler" -> "handler"
    [] step = "app"     -> "app"
    [] step = "run"     -> "serving"

\* one more execution of a step
Attempt(step) == [attempts EXCEPT ![step] = @ + 1]

Init ==
  /\ pc = "start"
  /\ greeting_skill = None
  /\ agent_card = None
  /\ request_handler = None
  /\ server = None
  /\ listener = None
  /\ executors = {}
  /\ stores = [s \in {} |-> {}]
  /\ failedAt = "none"
  /\ attempts = [s \in Steps |-> 0]
  /\ bound = {}
  /\ stop_signal = FALSE
  /\ served = 0
  /\ lastDoc = None
  /\ usedBy = {}

(***************************************************************************)
(* The statements of __main__.py.                                          *)
(***************************************************************************)
\* lines 1-6: the imports
Imports ==
  /\ pc = "start"
  /\ pc' = "imported"
  /\ attempts' = Attempt("import")
  /\ UNCHANGED <<greeting_skill, agent_card, request_handler, server, listener,
                 executors, stores, failedAt, bound, stop_signal, served,
                 lastDoc, usedBy>>

\* BuildSkill with the skill misnamed: C1 does not survive it
BuildSkillMisnamed ==
  /\ pc = "imported"
  /\ greeting_skill' = [id |-> "hello_world",
                        name |-> "Greeting",
                        description |-> "Return a greeting",
                        tags |-> <<"greeting", "hello", "world">>,
                        examples |-> <<"Hey", "Hi", "Hello">>]
  /\ pc' = "skill"
  /\ attempts' = Attempt("skill")
  /\ UNCHANGED <<agent_card, request_handler, server, listener, executors,
                 stores, failedAt, bound, stop_signal, served, lastDoc, usedBy>>

\* lines 10-16
BuildSkill ==
  /\ pc = "imported"
  /\ greeting_skill' = [id |-> "hello_world",
                        name |-> "Greet",
                        description |-> "Return a greeting",
                        tags |-> <<"greeting", "hello", "world">>,
                        examples |-> <<"Hey", "Hi", "Hello">>]
  /\ pc' = "skill"
  /\ attempts' = Attempt("skill")
  /\ UNCHANGED <<agent_card, request_handler, server, listener, executors,
                 stores, failedAt, bound, stop_signal, served, lastDoc, usedBy>>

\* BuildCard moved above the skill it lists: C7 does not survive it
BuildCardBeforeSkill ==
  /\ pc \in {"imported", "skill"}
  /\ agent_card' = [name |-> "Greeting Agent",
                    description |-> "A simple agent that returns a greeting",
                    url |-> CardUrl,
                    defaultInputModes |-> <<"text">>,
                    defaultOutputModes |-> <<"text">>,
                    skills |-> <<greeting_skill>>,
                    version |-> "1.0.0",
                    capabilities |-> AgentCapabilities]
  /\ pc' = "card"
  /\ attempts' = Attempt("card")
  /\ UNCHANGED <<greeting_skill, request_handler, server, listener, executors,
                 stores, failedAt, bound, stop_signal, served, lastDoc, usedBy>>

\* BuildCard listing the skill twice: C10 does not survive it
BuildCardListsSkillTwice ==
  /\ pc = "skill"
  /\ agent_card' = [name |-> "Greeting Agent",
                    description |-> "A simple agent that returns a greeting",
                    url |-> CardUrl,
                    defaultInputModes |-> <<"text">>,
                    defaultOutputModes |-> <<"text">>,
                    skills |-> <<greeting_skill, greeting_skill>>,
                    version |-> "1.0.0",
                    capabilities |-> AgentCapabilities]
  /\ pc' = "card"
  /\ attempts' = Attempt("card")
  /\ UNCHANGED <<greeting_skill, request_handler, server, listener, executors,
                 stores, failedAt, bound, stop_signal, served, lastDoc, usedBy>>

\* lines 18-27
BuildCard ==
  /\ pc = "skill"
  /\ agent_card' = [name |-> "Greeting Agent",
                    description |-> "A simple agent that returns a greeting",
                    url |-> CardUrl,
                    defaultInputModes |-> <<"text">>,
                    defaultOutputModes |-> <<"text">>,
                    skills |-> <<greeting_skill>>,
                    version |-> "1.0.0",
                    capabilities |-> AgentCapabilities]
  /\ pc' = "card"
  /\ attempts' = Attempt("card")
  /\ UNCHANGED <<greeting_skill, request_handler, server, listener, executors,
                 stores, failedAt, bound, stop_signal, served, lastDoc, usedBy>>

\* line 31: GreetingAgentExecutor() is a new instance
NewExecutor == Cardinality(executors) + 1

\* line 32: InMemoryTaskStore() is a new instance, holding nothing
NewStore == Cardinality(DOMAIN stores) + 1

\* BuildHandler with a store that comes up holding a saved task: C8 does not
\* survive it
BuildHandlerLoadsStore ==
  /\ pc = "card"
  /\ executors' = executors \cup {NewExecutor}
  /\ stores' = [s \in DOMAIN stores \cup {NewStore} |->
                  IF s \in DOMAIN stores THEN stores[s] ELSE {1}]
  /\ request_handler' = [agent_executor |-> NewExecutor,
                         task_store |-> NewStore]
  /\ pc' = "handler"
  /\ attempts' = Attempt("handler")
  /\ UNCHANGED <<greeting_skill, agent_card, server, listener, failedAt,
                 bound, stop_signal, served, lastDoc, usedBy>>

\* lines 30-33
BuildHandler ==
  /\ pc = "card"
  /\ executors' = executors \cup {NewExecutor}
  /\ stores' = [s \in DOMAIN stores \cup {NewStore} |->
                  IF s \in DOMAIN stores THEN stores[s] ELSE {}]
  /\ request_handler' = [agent_executor |-> NewExecutor,
                         task_store |-> NewStore]
  /\ pc' = "handler"
  /\ attempts' = Attempt("handler")
  /\ UNCHANGED <<greeting_skill, agent_card, server, listener, failedAt,
                 bound, stop_signal, served, lastDoc, usedBy>>

\* BuildApp rewriting the url of the card it is given: C5 does not survive it
BuildAppRewritesUrl ==
  /\ pc = "handler"
  /\ agent_card' = [agent_card EXCEPT !.url = <<"h","t","t","p",":","/","/",
                      "0",".","0",".","0",".","0",":","9","9","9","9","/">>]
  /\ server' = [http_handler |-> request_handler, agent_card |-> agent_card']
  /\ pc' = "app"
  /\ attempts' = Attempt("app")
  /\ UNCHANGED <<greeting_skill, request_handler, listener, executors, stores,
                 failedAt, bound, stop_signal, served, lastDoc, usedBy>>

\* lines 37-40
BuildApp ==
  /\ pc = "handler"
  /\ server' = [http_handler |-> request_handler, agent_card |-> agent_card]
  /\ pc' = "app"
  /\ attempts' = Attempt("app")
  /\ UNCHANGED <<greeting_skill, agent_card, request_handler, listener,
                 executors, stores, failedAt, bound, stop_signal, served,
                 lastDoc, usedBy>>

\* StartServer bound to the loopback address: C3 does not survive it
StartServerLoopback ==
  /\ pc = "app"
  /\ listener' = [host |-> "127.0.0.1", port |-> Port]
  /\ bound' = bound \cup {[host |-> "127.0.0.1", port |-> Port]}
  /\ pc' = "serving"
  /\ attempts' = Attempt("run")
  /\ UNCHANGED <<greeting_skill, agent_card, request_handler, server,
                 executors, stores, failedAt, stop_signal, served, lastDoc,
                 usedBy>>

\* StartServer bound to another port: C9 does not survive it
StartServerOtherPort ==
  /\ pc = "app"
  /\ listener' = [host |-> Host, port |-> 8000]
  /\ bound' = bound \cup {[host |-> Host, port |-> 8000]}
  /\ pc' = "serving"
  /\ attempts' = Attempt("run")
  /\ UNCHANGED <<greeting_skill, agent_card, request_handler, server,
                 executors, stores, failedAt, stop_signal, served, lastDoc,
                 usedBy>>

\* StartServer that builds the application and never runs it: C2 does not
\* survive it
StartServerBuildOnly ==
  /\ pc = "app"
  /\ pc' = "returned"
  /\ attempts' = Attempt("run")
  /\ UNCHANGED <<greeting_skill, agent_card, request_handler, server, listener,
                 executors, stores, failedAt, bound, stop_signal, served,
                 lastDoc, usedBy>>

\* line 43: uvicorn.run(server.build(), host="0.0.0.0", port=9999) binds the
\* address and serves; the call does not return while the listener runs
StartServer ==
  /\ pc = "app"
  /\ listener' = [host |-> Host, port |-> Port]
  /\ bound' = bound \cup {[host |-> Host, port |-> Port]}
  /\ pc' = "serving"
  /\ attempts' = Attempt("run")
  /\ UNCHANGED <<greeting_skill, agent_card, request_handler, server,
                 executors, stores, failedAt, stop_signal, served, lastDoc,
                 usedBy>>

\* Raise with the exception caught and the next statement run: C4 does not
\* survive it
RaiseSwallowed(step) ==
  /\ pc' = PcAfter(step)
  /\ failedAt' = step
  /\ attempts' = Attempt(step)
  /\ UNCHANGED <<greeting_skill, agent_card, request_handler, server, listener,
                 executors, stores, bound, stop_signal, served, lastDoc, usedBy>>

\* lines 8-47: no statement is inside a try block, so an exception raised by
\* the call of a step leaves main() and ends the process
Raise(step) ==
  /\ pc' = "raised"
  /\ failedAt' = step
  /\ attempts' = Attempt(step)
  /\ UNCHANGED <<greeting_skill, agent_card, request_handler, server, listener,
                 executors, stores, bound, stop_signal, served, lastDoc, usedBy>>

\* the call of the current step raises (a missing module, a rejected
\* descriptor, a constructor that fails, an address already in use)
StepRaises ==
  \E step \in Steps :
    /\ pc = PcBefore(step)
    /\ Raise(step)

\* RunReturns inside a restart loop, the server started again: C6 does not
\* survive it
RunRestarts ==
  /\ pc = "serving"
  /\ stop_signal
  /\ listener' = None
  /\ stop_signal' = FALSE
  /\ pc' = "app"
  /\ UNCHANGED <<greeting_skill, agent_card, request_handler, server,
                 executors, stores, failedAt, attempts, bound, served, lastDoc,
                 usedBy>>

\* lines 43-47: uvicorn.run returns once the listener has been told to exit,
\* and main() and the process end
RunReturns ==
  /\ pc = "serving"
  /\ stop_signal
  /\ listener' = None
  /\ pc' = "returned"
  /\ UNCHANGED <<greeting_skill, agent_card, request_handler, server,
                 executors, stores, failedAt, attempts, bound, stop_signal,
                 served, lastDoc, usedBy>>

\* the steps the process takes by itself
MainStep ==
  \/ Imports
  \/ BuildSkill
  \/ BuildCard
  \/ BuildHandler
  \/ BuildApp
  \/ StartServer
  \/ StepRaises
  \/ RunReturns

(***************************************************************************)
(* What the listener started on line 43 does with the application it was   *)
(* given: the clients and the operator are the environment.                *)
(***************************************************************************)
\* a skill descriptor as it appears in the discovery document
SkillJson(skill) ==
  [id |-> skill.id,
   name |-> skill.name,
   description |-> skill.description,
   tags |-> skill.tags,
   examples |-> skill.examples]

\* the discovery document of a card (lines 49-52: what
\* curl http://localhost:9999/.well-known/agent.json returns)
CardJson(card) ==
  [name |-> card.name,
   description |-> card.description,
   url |-> card.url,
   version |-> card.version,
   defaultInputModes |-> card.defaultInputModes,
   defaultOutputModes |-> card.defaultOutputModes,
   capabilities |-> card.capabilities,
   skills |-> [i \in DOMAIN card.skills |-> SkillJson(card.skills[i])]]

\* GET /.well-known/agent.json: the card the application was built with
Discovery ==
  /\ listener # None
  /\ served < MaxRequests
  /\ lastDoc' = CardJson(server.agent_card)
  /\ served' = served + 1
  /\ UNCHANGED <<pc, greeting_skill, agent_card, request_handler, server,
                 listener, executors, stores, failedAt, attempts, bound,
                 stop_signal, usedBy>>

\* a message for task t: the application's handler runs its executor and
\* saves the task in its store
SendMessage(t) ==
  /\ listener # None
  /\ served < MaxRequests
  /\ stores' = [stores EXCEPT ![server.http_handler.task_store] = @ \cup {t}]
  /\ usedBy' = usedBy \cup {<<server.http_handler.agent_executor,
                              server.http_handler.task_store>>}
  /\ served' = served + 1
  /\ UNCHANGED <<pc, greeting_skill, agent_card, request_handler, server,
                 listener, executors, failedAt, attempts, bound, stop_signal,
                 lastDoc>>

\* the operator interrupts the process
Signal ==
  /\ listener # None
  /\ ~stop_signal
  /\ stop_signal' = TRUE
  /\ UNCHANGED <<pc, greeting_skill, agent_card, request_handler, server,
                 listener, executors, stores, failedAt, attempts, bound,
                 served, lastDoc, usedBy>>

Next ==
  \/ Imports
  \/ BuildSkill
  \/ BuildCard
  \/ BuildHandler
  \/ BuildApp
  \/ StartServer
  \/ StepRaises
  \/ RunReturns
  \/ Discovery
  \/ \E t \in 1..MaxTasks : SendMessage(t)
  \/ Signal

Spec == Init /\ [][Next]_vars

\* the interpreter runs the statements of the file one after another
FairSpec == Init /\ [][Next]_vars /\ WF_vars(MainStep)

(***************************************************************************)
(* Reading a URL: scheme "://" host ":" port "/" path.                     *)
(***************************************************************************)
RECURSIVE FirstAt(_, _, _)
\* the least index from i on at which seq holds c, Len(seq) + 1 if none
FirstAt(seq, c, i) ==
  IF i > Len(seq) THEN Len(seq) + 1
  ELSE IF seq[i] = c THEN i
  ELSE FirstAt(seq, c, i + 1)

\* what stands between "://" and the next "/"
UrlAuthority(url) ==
  LET from == FirstAt(url, ":", 1) + 3
      to == FirstAt(url, "/", from) - 1
  IN SubSeq(url, from, to)

\* the host of a URL
UrlHost(url) ==
  LET auth == UrlAuthority(url)
  IN SubSeq(auth, 1, FirstAt(auth, ":", 1) - 1)

DigitChars == <<"0","1","2","3","4","5","6","7","8","9">>

RECURSIVE DigitsValue(_)
\* the number a sequence of decimal digits writes
DigitsValue(ds) ==
  IF ds = <<>> THEN 0
  ELSE DigitsValue(SubSeq(ds, 1, Len(ds) - 1)) * 10
         + ((CHOOSE d \in 1..10 : DigitChars[d] = ds[Len(ds)]) - 1)

\* the port of a URL that names one
UrlPort(url) ==
  LET auth == UrlAuthority(url)
  IN DigitsValue(SubSeq(auth, FirstAt(auth, ":", 1) + 1, Len(auth)))

\* the names of the loopback interface
LoopbackNames == {<<"l","o","c","a","l","h","o","s","t">>,
                  <<"1","2","7",".","0",".","0",".","1">>}

\* a listener bound to bindHost accepts connections made to the host a URL
\* names on the same machine: the wildcard address covers every interface
ReachableThrough(urlHost, bindHost) ==
  \/ bindHost = "0.0.0.0"
  \/ bindHost = "127.0.0.1" /\ urlHost \in LoopbackNames

(***************************************************************************)
(* Properties.                                                             *)
(***************************************************************************)
\* the skill descriptor of lines 10-16 as the discovery document shows it
HelloWorldJson ==
  [id |-> "hello_world",
   name |-> "Greet",
   description |-> "Return a greeting",
   tags |-> <<"greeting", "hello", "world">>,
   examples |-> <<"Hey", "Hi", "Hello">>]

\* C1: every discovery document served after startup holds the fixed
\* descriptor fields verbatim: the agent's name, description, url, version and
\* default modes, and the hello_world skill with its name, description, tags
\* and examples.
C1_DiscoveryDocVerbatim ==
  lastDoc # None =>
    /\ lastDoc.name = "Greeting Agent"
    /\ lastDoc.description = "A simple agent that returns a greeting"
    /\ lastDoc.url = <<"h","t","t","p",":","/","/","l","o","c","a","l","h",
                       "o","s","t",":","9","9","9","9","/">>
    /\ lastDoc.version = "1.0.0"
    /\ lastDoc.defaultInputModes = <<"text">>
    /\ lastDoc.defaultOutputModes = <<"text">>
    /\ \E i \in DOMAIN lastDoc.skills : lastDoc.skills[i] = HelloWorldJson

\* C1 witness: a discovery document has been served, and another request too
C1_Witness == lastDoc # None /\ served >= 2 /\ usedBy # {}

\* C3: a running listener is bound to host 0.0.0.0 and port 9999, and no run
\* ever binds another address.
C3_FixedBindAddress ==
  /\ listener # None => listener = [host |-> "0.0.0.0", port |-> 9999]
  /\ bound \subseteq {[host |-> "0.0.0.0", port |-> 9999]}

\* C3 witness: the listener is running and has answered a request
C3_Witness == listener # None /\ bound # {} /\ served >= 1

\* C9: while the listener runs, the port in the card's url is the port the
\* listener is bound to, and the host the url names is reachable through the
\* host the listener is bound to.
C9_AdvertisedAddressAgrees ==
  listener # None =>
    /\ UrlPort(server.agent_card.url) = listener.port
    /\ UrlPort(server.agent_card.url) = 9999
    /\ UrlHost(server.agent_card.url) = <<"l","o","c","a","l","h","o","s","t">>
    /\ ReachableThrough(UrlHost(server.agent_card.url), listener.host)

\* C9 witness: the listener runs and has served the card it advertises
C9_Witness ==
  listener # None /\ lastDoc # None /\ UrlPort(lastDoc.url) = listener.port

\* the steps in program order
StepOrder == <<"import", "skill", "card", "handler", "app", "run">>

\* the place of a step in the program
StepIndex(step) == CHOOSE i \in DOMAIN StepOrder : StepOrder[i] = step

\* every statement of the file has run once and none has raised
AllStepsCompleted ==
  /\ failedAt = "none"
  /\ \A step \in Steps : attempts[step] = 1
  /\ greeting_skill # None
  /\ agent_card # None
  /\ request_handler # None
  /\ server # None

C4_FailurePropagates ==
  /\ [](failedAt # "none" <=> pc = "raised")
  /\ [](pc = "raised" =>
          /\ attempts[failedAt] = 1
          /\ \A step \in Steps :
               StepIndex(step) > StepIndex(failedAt) => attempts[step] = 0
          /\ listener = None
          /\ bound = {}
          /\ served = 0)
  /\ [][pc = "raised" => UNCHANGED vars]_vars

\* C4 witness: a construction step has raised after earlier steps completed
C4_Witness ==
  pc = "raised" /\ failedAt = "handler" /\ agent_card # None
    /\ request_handler = None

\* C5: the skill descriptor and the agent card are each assembled once, and
\* once assembled never change; the card the application holds is that card
\* and stays equal to what was constructed.
C5_DescriptorsImmutable ==
  /\ [](attempts["skill"] <= 1 /\ attempts["card"] <= 1)
  /\ [](server # None =>
          /\ server.agent_card = agent_card
          /\ agent_card.skills = <<greeting_skill>>)
  /\ [][/\ greeting_skill # None => greeting_skill' = greeting_skill
        /\ agent_card # None => agent_card' = agent_card
        /\ server # None => server' = server]_vars

\* C5 witness: the card was handed to the application and requests were served
C5_Witness ==
  server # None /\ server.agent_card = agent_card /\ served >= 2
    /\ pc = "returned"

\* a step of the process is possible without anything happening outside it
MainCanStep == ENABLED MainStep

\* each statement of the file executes at most once per process
AtMostOnce == \A step \in Steps : attempts[step] <= 1

\* C6 as stated: each bootstrap step executes at most once, and main() never
\* waits: until it has ended it can always take its next step.
C6_NeverBlocks ==
  /\ AtMostOnce
  /\ pc \notin {"returned", "raised"} => MainCanStep

\* C6 as amended: each bootstrap step executes at most once, no step before
\* the server start waits, the server start blocks main() for as long as the
\* listener has not been told to exit, and after main() has ended no
\* statement executes again.
C6_OnceAndBlocksOnlyInRun ==
  /\ AtMostOnce
  /\ pc \in {"start", "imported", "skill", "card", "handler", "app"}
       => MainCanStep
  /\ pc = "serving" => (MainCanStep <=> stop_signal)
  /\ pc \in {"returned", "raised"} => ~MainCanStep

\* C6 witness: main() is inside uvicorn.run, waiting, while requests are served
C6_Witness ==
  pc = "serving" /\ ~stop_signal /\ served >= 1 /\ ~MainCanStep

\* C7: the skill exists before the card that lists it, the card and the
\* handler before the application, the application (holding both) before the
\* listener, and no request is served without card and handler.
C7_StartupOrder ==
  /\ [](agent_card # None =>
          greeting_skill # None /\ agent_card.skills = <<greeting_skill>>)
  /\ [](server # None =>
          /\ agent_card # None
          /\ request_handler # None
          /\ server.http_handler = request_handler
          /\ server.agent_card = agent_card)
  /\ [](listener # None => server # None)
  /\ [][served' # served =>
          /\ listener # None
          /\ agent_card # None
          /\ request_handler # None
          /\ server # None]_vars

\* C7 witness: requests are being served by the fully constructed application
C7_Witness ==
  listener # None /\ served >= 1 /\ server # None
    /\ server.http_handler = request_handler

\* C8: the handler pairs one executor with one task store, both created at
\* startup and only once; the store holds nothing until a message has been
\* served; every message is served by that one executor and that one store.
C8_OneStoreOneExecutor ==
  /\ Cardinality(executors) <= 1
  /\ Cardinality(DOMAIN stores) <= 1
  /\ request_handler = None => usedBy = {}
  /\ request_handler # None =>
       /\ executors = {request_handler.agent_executor}
       /\ DOMAIN stores = {request_handler.task_store}
       /\ usedBy \subseteq {<<request_handler.agent_executor,
                              request_handler.task_store>>}
  /\ usedBy = {} => \A s \in DOMAIN stores : stores[s] = {}
  /\ listener # None /\ served = 0 => \A s \in DOMAIN stores : stores[s] = {}

\* C8 witness: several messages have been served, all by the one store
C8_Witness ==
  /\ usedBy # {}
  /\ \E s \in DOMAIN stores : Cardinality(stores[s]) >= 2

\* the ids of the skills a card lists, in order
SkillIds(card) == [i \in DOMAIN card.skills |-> card.skills[i].id]

\* C10: the card advertises exactly one skill, hello_world, so skill ids are
\* unique, and the list of advertised skills never changes; the discovery
\* document shows the same.
C10_ExactlyOneSkill ==
  /\ [](agent_card # None => SkillIds(agent_card) = <<"hello_world">>)
  /\ [](lastDoc # None => SkillIds(lastDoc) = <<"hello_world">>)
  /\ [](agent_card # None =>
          \A i, j \in DOMAIN agent_card.skills :
            agent_card.skills[i].id = agent_card.skills[j].id => i = j)
  /\ [][agent_card # None => SkillIds(agent_card') = SkillIds(agent_card)]_vars

\* C10 witness: the one-skill card has been served
C10_Witness ==
  lastDoc # None /\ Len(lastDoc.skills) = 1 /\ Len(agent_card.skills) = 1

====
